---- MODULE Spec2Model ----
(***************************************************************************)
(* The Carbon Dioxide Removal Assembly (CDRA) simulator of DaphneATsim:    *)
(* the state of CDRA.CDRAState, the process-wide FAILURE_SCENARIO          *)
(* dictionary, and the tick pipeline control -> apply_failures -> bed      *)
(* update -> update_cabin_concentration as the drivers CDRA.main and       *)
(* simulation.simulate_step run it.                                        *)
(*                                                                         *)
(* The source computes in floating point.  The model computes in exact     *)
(* integer multiples of fixed units:                                       *)
(*   saturation          1/SATURATION_TIME_CONSTANT  (1.0 is 600)          *)
(*   adsorption_eff, eta 1/EFF_UNITS = 1/4000        (0.05 is 200)         *)
(*   air_flow_rate       1/FLOW_UNITS = 1/100 kg/s   (1.0 is 100)          *)
(*   co2_content, C_out  1/CO2_UNITS = 1/10000000 kg CO2 / kg dry air      *)
(*   ppCO2               1/100 mmHg                                        *)
(* Bed saturation and efficiency are exact in these units; a concentration *)
(* is rounded to the nearest unit where the source rounds to the nearest   *)
(* double.                                                                 *)
(***************************************************************************)
EXTENDS Integers, Sequences, FiniteSets, TLC

VARIABLES
    driver,             \* which loop owns the state: "main" | "simulate_step"
    pc,                 \* the driver's position inside the current tick
    time,               \* CDRAState.time
    saturation,         \* CDRAState.saturation : bed -> 0..600
    adsorption_eff,     \* CDRAState.adsorption_eff : bed -> efficiency
    heater_on,          \* CDRAState.heater_on : key -> BOOLEAN
    valve_state,        \* CDRAState.valve_state : [path_1_active : BOOLEAN]
    air_flow_rate,      \* CDRAState.air_flow_rate
    co2_content,        \* CDRAState.co2_content
    co2_removed_total,  \* CDRAState.co2_removed_total
    FAILURE_SCENARIO,   \* the module-level dictionary of CDRA.py
    C_out,              \* first value returned by timestep
    flow,               \* second value returned by timestep
    co2_before,         \* local of CDRA.main
    cabin,              \* simulation.cabin : [ppCO2, ppCO21]
    ran,                \* the stages run so far in the current tick
    edits,              \* how many times the harness edited FAILURE_SCENARIO
    flips,              \* valve flips since the tick counter last advanced
    horizon,            \* the tick up to which the run is followed
    runs,               \* how many CDRAState objects have been created
    loop_t,             \* simulation.main: iterations of its for loop completed
    telemetry_counter,  \* simulation.main: telemetry posts made
    probe               \* a conversion of simulation.py applied to an argument

simVars == <<driver, pc, time, saturation, adsorption_eff, heater_on,
             valve_state, air_flow_rate, co2_content, co2_removed_total,
             FAILURE_SCENARIO, C_out, flow, co2_before, cabin, ran, edits,
             flips, horizon, runs, loop_t, telemetry_counter>>

vars == <<simVars, probe>>

-----------------------------------------------------------------------------
(* Bounds of the model *)

MaxTime == 405          \* ticks a run is followed for
MaxLongTime == 1300     \* ticks a long run is followed for
MaxRunTime == 55        \* ticks each of several successive runs is followed for
MaxRuns == 2            \* CDRAState objects created in one process
MaxEdits == 1           \* edits of FAILURE_SCENARIO by the harness per run
MaxFlips == 2           \* flips within one tick are counted up to this number

-----------------------------------------------------------------------------
(* Constants of CDRA.py and simulation_config.py, in the units above *)

EFF_UNITS == 4000
FLOW_UNITS == 100
CO2_UNITS == 10000000

TIME_END == 10000
DT == 1
TIME_STEPS == 100000
M_CABIN == 100
CO2_CONTENT_INIT == 40000               \* 0.004 kg/kg
CO2_INPUT_MEAN == 6000                  \* 0.00002 * 30 kg/kg
INITIAL_SATURATION_LEVEL == 0
REGENERATION_RATE_MULTIPLIER == 2
AIR_FLOW_RATE == 100                    \* 1.0 kg/s
VALVE_SWITCH_INTERVAL == 200
SATURATION_TIME_CONSTANT == 600
BASE_ADSORPTION_EFF == 200              \* 0.05
MAX_ADSORPTION_EFF_INCREMENT == 600     \* 0.15
DESORPTION_MULTIPLIER == 4200           \* 1.05
CO2_CONTENT_INIT_MMHG == 3              \* simulation_config.CO2_CONTENT_INIT
STANDARD_PRESSURE_MMHG == 760
MOLAR_MASS_CO2 == 4401                  \* 44.01 g/mol
MOLAR_MASS_AIR == 2897                  \* 28.97 g/mol
DEGRADED_FLOW_RATE == 38                \* 0.38 kg/s
INITIAL_PPCO2 == 50                     \* 0.5 mmHg
FALLBACK_PPCO2 == 50                    \* 0.5 mmHg
REAL_TIME_MODE == TRUE
SIMULATION_SPEED == 50                  \* steps per real second
TELEMETRY_FREQUENCY_HZ == 1             \* 1.0 posts per real second

\* Python's None where the source expects a flow rate
NoneFlow == 0 - 1

\* Python's None where the source expects the first tick of a window
NoneTick == 0 - 1

Beds == {"desiccant_1", "desiccant_3", "sorbent_2", "sorbent_4"}
Path1Beds == {"desiccant_1", "sorbent_2"}
Path2Beds == {"desiccant_3", "sorbent_4"}

Min(a, b) == IF a <= b THEN a ELSE b
Max(a, b) == IF a >= b THEN a ELSE b

\* a / b to the nearest integer
RoundDiv(a, b) == (a + b \div 2) \div b

-----------------------------------------------------------------------------
(* Unit conversions of simulation.py *)

\* the factor 133.322 of the source (mmHg to Pa) cancels within each function
mmhg_to_kg_per_kg_air(co2_mmhg) ==
    LET co2_mol_per_mol_air == RoundDiv(co2_mmhg * CO2_UNITS, STANDARD_PRESSURE_MMHG)
    IN  RoundDiv(co2_mol_per_mol_air * MOLAR_MASS_CO2, MOLAR_MASS_AIR)

\* the result in 1/100 mmHg, as round(ppco2_mmhg, 2) keeps it
kg_per_kg_air_to_mmhg(co2_kg_per_kg_air) ==
    LET co2_mol_per_mol_air ==
            RoundDiv(co2_kg_per_kg_air * MOLAR_MASS_AIR, MOLAR_MASS_CO2)
    IN  RoundDiv(co2_mol_per_mol_air * STANDARD_PRESSURE_MMHG, CO2_UNITS \div 100)

-----------------------------------------------------------------------------
(* The two conversions as functions of an arbitrary number.  A number is a  *)
(* fraction num/den in lowest terms of one of three magnitudes: "unit"      *)
(* (times 1), "huge" (times 2^1014) and "tiny" (times 2^-1074, the smallest *)
(* positive double); den = 0 is an infinity.  Under the arithmetic "exact"  *)
(* every operation is exact; under "float" a result beyond the largest      *)
(* double is an infinity and a result of the subnormal range is rounded to  *)
(* a whole multiple of 2^-1074, as the doubles of the source do.  The       *)
(* rounding of the 53-bit mantissa (relative error 2^-53 per operation) is  *)
(* not modelled.                                                            *)

MaxMantissa == 800      \* inputs are n/100 (n whole at "tiny"), |n| <= 800

PA_PER_MMHG_MILLI == 133322             \* 133.322 Pa per mmHg
HUGE_LIMIT == 1024                      \* 2^1024 / 2^1014

Arithmetics == {"exact", "float"}
Magnitudes == {"tiny", "unit", "huge"}

Abs(n) == IF n < 0 THEN 0 - n ELSE n

RECURSIVE Gcd(_, _)
Gcd(a, b) == IF b = 0 THEN a ELSE Gcd(b, a % b)

\* n/d in lowest terms with den >= 0, at magnitude m
Number(n, d, m) ==
    LET g == Max(Gcd(Abs(n), Abs(d)), 1)
        sgn == IF d < 0 THEN 0 - 1 ELSE 1
    IN  [num |-> (sgn * n) \div g, den |-> (sgn * d) \div g, magnitude |-> m]

\* the result of an operation as the arithmetic ar keeps it
Stored(ar, v) ==
    IF ar = "exact" \/ v.den = 0 \/ v.num = 0 THEN v
    ELSE IF v.magnitude = "huge" /\ Abs(v.num) \div v.den >= HUGE_LIMIT
         THEN Number(IF v.num < 0 THEN 0 - 1 ELSE 1, 0, v.magnitude)
    ELSE IF v.magnitude = "tiny"
         THEN Number(RoundDiv(v.num, v.den), 1, v.magnitude)
    ELSE v

\* a * b and a / b, one of the operands of magnitude "unit"
Times(ar, a, b) ==
    LET g1 == Max(Gcd(Abs(a.num), b.den), 1)
        g2 == Max(Gcd(Abs(b.num), a.den), 1)
    IN  Stored(ar, Number((a.num \div g1) * (b.num \div g2),
                          (a.den \div g2) * (b.den \div g1),
                          IF a.magnitude = "unit" THEN b.magnitude
                          ELSE a.magnitude))

Over(ar, a, b) ==
    Times(ar, a, Number(b.den, b.num, b.magnitude))

PA_PER_MMHG == Number(PA_PER_MMHG_MILLI, 1000, "unit")
STANDARD_PRESSURE == Number(STANDARD_PRESSURE_MMHG, 1, "unit")
M_CO2 == Number(MOLAR_MASS_CO2, 100, "unit")
M_AIR == Number(MOLAR_MASS_AIR, 100, "unit")

mmhg_to_kg_per_kg_air_in(ar, co2_mmhg) ==
    LET co2_pa == Times(ar, co2_mmhg, PA_PER_MMHG)
        co2_mol_per_mol_air ==
            Over(ar, co2_pa, Times(ar, STANDARD_PRESSURE, PA_PER_MMHG))
    IN  Times(ar, co2_mol_per_mol_air, Over(ar, M_CO2, M_AIR))

\* faulty variant: the pressure is returned in Pa
kg_per_kg_air_to_pa_in(ar, co2_kg_per_kg_air) ==
    LET co2_mol_per_mol_air ==
            Times(ar, co2_kg_per_kg_air, Over(ar, M_AIR, M_CO2))
    IN  Times(ar, co2_mol_per_mol_air, Times(ar, STANDARD_PRESSURE, PA_PER_MMHG))

kg_per_kg_air_to_mmhg_in(ar, co2_kg_per_kg_air) ==
    LET co2_mol_per_mol_air ==
            Times(ar, co2_kg_per_kg_air, Over(ar, M_AIR, M_CO2))
        co2_pa ==
            Times(ar, co2_mol_per_mol_air,
                  Times(ar, STANDARD_PRESSURE, PA_PER_MMHG))
    IN  Over(ar, co2_pa, PA_PER_MMHG)

\* the arguments the conversions are applied to
ConversionInputs ==
    {Number(n, 100, "unit") : n \in (0 - MaxMantissa)..MaxMantissa}
        \cup {Number(n, 100, "huge") : n \in 1..MaxMantissa}
        \cup {Number(n, 1, "tiny") : n \in 1..MaxMantissa}

-----------------------------------------------------------------------------
(* FAILURE_SCENARIO *)

DefaultScenario ==
    [filter_saturation |-> FALSE,
     filter_saturation_start |-> TIME_END,
     filter_saturation_end |-> TIME_END,
     heater_failure |-> {},
     sensor_failure |-> {},
     valve_stuck |-> FALSE,
     valve_stuck_start |-> TIME_END,
     valve_stuck_end |-> TIME_END,
     fan_degraded |-> FALSE,
     fan_degraded_start |-> 1000,
     fan_degraded_end |-> TIME_END,
     degraded_flow_rate |-> AIR_FLOW_RATE]

\* faulty variant: the stuck window opens after the first switch tick
CDRA_FAILURES_LATE_WINDOW ==
    [DefaultScenario EXCEPT
        !.valve_stuck = TRUE,
        !.valve_stuck_start = VALVE_SWITCH_INTERVAL + 1,
        !.valve_stuck_end = TIME_STEPS,
        !.filter_saturation_end = TIME_STEPS,
        !.fan_degraded_end = TIME_STEPS,
        !.degraded_flow_rate = DEGRADED_FLOW_RATE]

\* FAILURE_SCENARIO.update(CDRA_FAILURES)
CDRA_FAILURES ==
    [DefaultScenario EXCEPT
        !.filter_saturation = FALSE,
        !.filter_saturation_start = 0,
        !.filter_saturation_end = TIME_STEPS,
        !.valve_stuck = TRUE,
        !.valve_stuck_start = 0,
        !.valve_stuck_end = TIME_STEPS,
        !.heater_failure = {},
        !.fan_degraded = FALSE,
        !.fan_degraded_start = 0,
        !.fan_degraded_end = TIME_STEPS,
        !.degraded_flow_rate = DEGRADED_FLOW_RATE]

\* the scenario test_failures.py builds up, one test after the other
TestValveStuck ==
    [CDRA_FAILURES EXCEPT
        !.valve_stuck = TRUE, !.valve_stuck_start = 10, !.valve_stuck_end = 20]

TestFilterSaturation ==
    [TestValveStuck EXCEPT
        !.filter_saturation = TRUE,
        !.filter_saturation_start = 5, !.filter_saturation_end = 15]

TestFanDegradation ==
    [TestFilterSaturation EXCEPT
        !.fan_degraded = TRUE, !.fan_degraded_start = 5, !.fan_degraded_end = 15]

\* scenarios a harness scripts through the same keys
FanOnly ==
    [DefaultScenario EXCEPT
        !.fan_degraded = TRUE, !.fan_degraded_start = 5, !.fan_degraded_end = 15,
        !.degraded_flow_rate = DEGRADED_FLOW_RATE]

FilterOnly ==
    [DefaultScenario EXCEPT
        !.filter_saturation = TRUE,
        !.filter_saturation_start = 5, !.filter_saturation_end = 15]

StuckAtSwitch ==
    [DefaultScenario EXCEPT
        !.valve_stuck = TRUE,
        !.valve_stuck_start = VALVE_SWITCH_INTERVAL,
        !.valve_stuck_end = VALVE_SWITCH_INTERVAL]

HeaterFailed ==
    [DefaultScenario EXCEPT !.heater_failure = {"desiccant_3", "sorbent_2"}]

HeaterFailedStuck ==
    [StuckAtSwitch EXCEPT !.heater_failure = {"desiccant_1", "sorbent_4"}]

\* heater_failure naming something that is no bed: nothing in the code
\* restricts the list to the four bed names
UnknownHeater ==
    [DefaultScenario EXCEPT !.heater_failure = {"sorbent_3"}]

\* a fan failure configured for the tick of the first valve switch, its
\* degraded_flow_rate left None
FanFlowNone ==
    [DefaultScenario EXCEPT !.fan_degraded = TRUE,
                            !.fan_degraded_start = VALVE_SWITCH_INTERVAL,
                            !.fan_degraded_end = VALVE_SWITCH_INTERVAL,
                            !.degraded_flow_rate = NoneFlow]

\* a stuck valve whose window has no start: the comparison in control raises
StuckStartNone ==
    [DefaultScenario EXCEPT !.valve_stuck = TRUE,
                            !.valve_stuck_start = NoneTick]

\* a filter window without a start, not yet enabled: once it is, the comparison
\* in apply_failures raises
FilterStartNone ==
    [DefaultScenario EXCEPT !.filter_saturation_start = NoneTick]

Scenarios ==
    {DefaultScenario, CDRA_FAILURES, TestValveStuck, TestFilterSaturation,
     TestFanDegradation, FanOnly, FilterOnly, StuckAtSwitch, HeaterFailed,
     HeaterFailedStuck, UnknownHeater, FanFlowNone, StuckStartNone,
     FilterStartNone}

\* the keys test_failures.py assigns between two ticks, and the ticks at which
\* it does so
FlagKeys == {"filter_saturation", "valve_stuck", "fan_degraded"}
EditTicks == {5, 10}

-----------------------------------------------------------------------------
(* control *)

\* faulty variant: the window excludes its two end ticks
valve_stuck_exclusive(scn, t) ==
    scn.valve_stuck /\ scn.valve_stuck_start < t /\ t < scn.valve_stuck_end

valve_stuck(scn, t) ==
    scn.valve_stuck /\ scn.valve_stuck_start <= t /\ t <= scn.valve_stuck_end

\* faulty variant: the test of tick 0 is missing
SwitchValveAtZero(scn, t, vs) ==
    IF ~valve_stuck(scn, t) /\ t % VALVE_SWITCH_INTERVAL = 0
    THEN [vs EXCEPT !.path_1_active = ~vs.path_1_active]
    ELSE vs

\* faulty variant: a flip that fell into the stuck window is made up for at the
\* first tick after the window
SwitchValveDeferred(scn, t, vs) ==
    IF /\ ~valve_stuck(scn, t)
       /\ t # 0
       /\ \/ t % VALVE_SWITCH_INTERVAL = 0
          \/ /\ scn.valve_stuck
             /\ t = scn.valve_stuck_end + 1
             /\ \E m \in scn.valve_stuck_start .. scn.valve_stuck_end :
                    m > 0 /\ m % VALVE_SWITCH_INTERVAL = 0
    THEN [vs EXCEPT !.path_1_active = ~vs.path_1_active]
    ELSE vs

SwitchValve(scn, t, vs) ==
    IF ~valve_stuck(scn, t) /\ t % VALVE_SWITCH_INTERVAL = 0 /\ t # 0
    THEN [vs EXCEPT !.path_1_active = ~vs.path_1_active]
    ELSE vs

\* faulty variant: the heater of sorbent_2 follows the other pair
HeaterCommandsSplitPair(h, vs) ==
    [k \in DOMAIN h |->
        CASE k = "desiccant_1" -> ~vs.path_1_active
          [] k \in Path2Beds \cup {"sorbent_2"} -> vs.path_1_active
          [] OTHER -> h[k]]

\* faulty variant: the adsorbing pair is the one heated
HeaterCommandsAdsorbingPair(h, vs) ==
    [k \in DOMAIN h |->
        CASE k \in Path1Beds -> vs.path_1_active
          [] k \in Path2Beds -> ~vs.path_1_active
          [] OTHER -> h[k]]

HeaterCommands(h, vs) ==
    [k \in DOMAIN h |->
        CASE k \in Path1Beds -> ~vs.path_1_active
          [] k \in Path2Beds -> vs.path_1_active
          [] OTHER -> h[k]]

-----------------------------------------------------------------------------
(* apply_failures *)

\* faulty variant: the window never closes
FilterSaturatedOpenEnded(scn, t) ==
    scn.filter_saturation /\ scn.filter_saturation_start <= t

FilterSaturated(scn, t) ==
    scn.filter_saturation
        /\ scn.filter_saturation_start <= t /\ t <= scn.filter_saturation_end

OverlaySaturation(scn, t, sat) ==
    IF FilterSaturated(scn, t)
    THEN [component \in DOMAIN sat |-> SATURATION_TIME_CONSTANT]
    ELSE sat

OverlayEfficiency(scn, t, sat, eff) ==
    IF FilterSaturated(scn, t)
    THEN [component \in DOMAIN eff |->
            IF component \in DOMAIN sat
            THEN BASE_ADSORPTION_EFF + MAX_ADSORPTION_EFF_INCREMENT
            ELSE eff[component]]
    ELSE eff

\* faulty variant: the heater overlay is skipped
FailHeatersSkipped(scn, h) == h

\* state.heater_on[heater] = False: a name that is no key yet becomes one
FailHeaters(scn, h) ==
    [k \in DOMAIN h \cup scn.heater_failure |->
        IF k \in scn.heater_failure THEN FALSE ELSE h[k]]

\* faulty variant: the last tick of the window is left out
FanFlowExclusiveEnd(scn, t) ==
    IF scn.fan_degraded /\ scn.fan_degraded_start <= t /\ t < scn.fan_degraded_end
    THEN scn.degraded_flow_rate
    ELSE AIR_FLOW_RATE

FanFlow(scn, t) ==
    IF scn.fan_degraded /\ scn.fan_degraded_start <= t /\ t <= scn.fan_degraded_end
    THEN scn.degraded_flow_rate
    ELSE AIR_FLOW_RATE

-----------------------------------------------------------------------------
(* timestep, after its call of apply_failures *)

\* faulty variant: the clamp at 1.0 is missing
AdsorbUnclamped(s) == s + DT

\* faulty variant: the adsorbing beds move at the regeneration rate
AdsorbAtRegenerationRate(s) ==
    Min(s + REGENERATION_RATE_MULTIPLIER * DT, SATURATION_TIME_CONSTANT)

Adsorb(s) == Min(s + DT, SATURATION_TIME_CONSTANT)

\* faulty variant: the clamp at 0.0 is missing
RegenerateUnclamped(s) == s - REGENERATION_RATE_MULTIPLIER * DT

\* faulty variant: a heated bed regenerates at the adsorption rate
RegenerateAtAdsorptionRate(s) == Max(s - DT, 0)

Regenerate(s) == Max(s - REGENERATION_RATE_MULTIPLIER * DT, 0)

\* faulty variant: the second branch adsorbs one bed of each pair
UpdateFiltersMixed(sat, h, vs) ==
    IF vs.path_1_active
    THEN [b \in DOMAIN sat |->
            CASE b \in Path1Beds -> Adsorb(sat[b])
              [] b \in Path2Beds -> IF h[b] THEN Regenerate(sat[b]) ELSE sat[b]
              [] OTHER -> sat[b]]
    ELSE [b \in DOMAIN sat |->
            CASE b \in {"desiccant_3", "sorbent_2"} -> Adsorb(sat[b])
              [] b \in {"desiccant_1", "sorbent_4"} ->
                    IF h[b] THEN Regenerate(sat[b]) ELSE sat[b]
              [] OTHER -> sat[b]]

\* faulty variant: the idle pair regenerates whether heated or not
UpdateFiltersHeaterBlind(sat, h, vs) ==
    [b \in DOMAIN sat |->
        CASE b \in (IF vs.path_1_active THEN Path1Beds ELSE Path2Beds)
                -> Adsorb(sat[b])
          [] b \in (IF vs.path_1_active THEN Path2Beds ELSE Path1Beds)
                -> Regenerate(sat[b])
          [] OTHER -> sat[b]]

UpdateFilters(sat, h, vs) ==
    IF vs.path_1_active
    THEN [b \in DOMAIN sat |->
            CASE b \in Path1Beds -> Adsorb(sat[b])
              [] b \in Path2Beds -> IF h[b] THEN Regenerate(sat[b]) ELSE sat[b]
              [] OTHER -> sat[b]]
    ELSE [b \in DOMAIN sat |->
            CASE b \in Path2Beds -> Adsorb(sat[b])
              [] b \in Path1Beds -> IF h[b] THEN Regenerate(sat[b]) ELSE sat[b]
              [] OTHER -> sat[b]]

\* faulty variant: the efficiency grows with the saturation
EfficiencyInverted(s) ==
    BASE_ADSORPTION_EFF
        + (MAX_ADSORPTION_EFF_INCREMENT * s) \div SATURATION_TIME_CONSTANT

Efficiency(s) ==
    BASE_ADSORPTION_EFF
        + (MAX_ADSORPTION_EFF_INCREMENT * (SATURATION_TIME_CONSTANT - s))
            \div SATURATION_TIME_CONSTANT

\* faulty variant: the efficiencies are not recomputed
UpdateEfficiencyStale(eff, sat) == eff

UpdateEfficiency(eff, sat) ==
    [component \in DOMAIN eff |-> Efficiency(sat[component])]

\* faulty variant: the sorbent of the regenerating path is selected
ActiveSorbentOfIdlePath(vs) ==
    IF vs.path_1_active THEN "sorbent_4" ELSE "sorbent_2"

ActiveSorbent(vs) == IF vs.path_1_active THEN "sorbent_2" ELSE "sorbent_4"

\* faulty variant: the heater of the active sorbent is not looked at
EtaIgnoringHeater(eff, h, vs) == eff[ActiveSorbent(vs)]

Eta(eff, h, vs) ==
    IF ~h[ActiveSorbent(vs)] THEN eff[ActiveSorbent(vs)] ELSE -DESORPTION_MULTIPLIER

OutletConcentration(C_in, eta_co2) ==
    IF eta_co2 >= 0
    THEN RoundDiv(C_in * (EFF_UNITS - eta_co2), EFF_UNITS)
    ELSE RoundDiv(C_in * eta_co2, EFF_UNITS)

-----------------------------------------------------------------------------
(* update_cabin_concentration *)

\* flow / M_CABIN raises TypeError when flow is None
MixRaises(fl) == fl = NoneFlow

\* valve_stuck_start <= state.time raises TypeError when the start is None,
\* and is evaluated only if the flag is set
ControlRaises(scn) == scn.valve_stuck /\ scn.valve_stuck_start = NoneTick

\* the same for the first statement of apply_failures
FailuresRaise(scn) ==
    scn.filter_saturation /\ scn.filter_saturation_start = NoneTick

\* faulty variant: only the mixer is known to raise
StageRaisesInMixerOnly(stage, scn, fl) ==
    stage = "update_cabin_concentration" /\ MixRaises(fl)

\* the stage about to run raises an exception
StageRaises(stage, scn, fl) ==
    CASE stage = "control" -> ControlRaises(scn)
      [] stage = "apply_failures" -> FailuresRaise(scn)
      [] stage = "update_cabin_concentration" -> MixRaises(fl)
      [] OTHER -> FALSE

MixCabin(co2, cout, fl) ==
    RoundDiv((FLOW_UNITS * M_CABIN - fl) * co2 + fl * cout, FLOW_UNITS * M_CABIN)
        + RoundDiv(CO2_INPUT_MEAN, M_CABIN)

-----------------------------------------------------------------------------
(* The rest of the loop body *)

\* faulty variant: a fall and a rise of the cabin CO2 are both added
co2_removed_signed(before, after) == before - after

\* co2_removed = max(co2_before - co2_after, 0)
co2_removed(before, after) == Max(before - after, 0)

\* faulty variant: the counter is advanced twice in a tick
NextTickTwice(d, t) == t + 2 * DT

\* state.time += DT in CDRA.main, cdra_state.time += 1 in simulate_step
NextTick(d, t) == IF d = "main" THEN t + DT ELSE t + 1

-----------------------------------------------------------------------------
(* The drivers: CDRA.main and simulation.simulate_step under simulation.main. *)
(* The full-tick loops of test_integration.py and test_compatibility.py run   *)
(* the same statements as simulate_step.                                      *)

Drivers == {"main", "simulate_step"}

StageOrder ==
    <<"control", "apply_failures", "timestep", "update_cabin_concentration">>

\* faulty variant: the tick counter advances right after timestep
StageAfterSkipMixer(stage) ==
    CASE stage = "control" -> "apply_failures"
      [] stage = "apply_failures" -> "timestep"
      [] stage = "timestep" -> "advance"
      [] stage = "update_cabin_concentration" -> "advance"
      [] stage = "advance" -> "control"

StageAfter(stage) ==
    CASE stage = "control" -> "apply_failures"
      [] stage = "apply_failures" -> "timestep"
      [] stage = "timestep" -> "update_cabin_concentration"
      [] stage = "update_cabin_concentration" -> "advance"
      [] stage = "advance" -> "control"

\* what the loop of driver d counts: CDRA.main tests state.time, simulation.main
\* iterates over range(TIME_STEPS)
LoopIndex(d, tm, n) == IF d = "main" THEN tm ELSE n

StepsDone(d, n) == IF d = "simulate_step" THEN n + 1 ELSE n

steps_per_telemetry_cycle == SIMULATION_SPEED \div TELEMETRY_FREQUENCY_HZ

\* faulty variant: the loop index is tested, not the number of steps completed
TelemetryDueAtLoopIndex(n) ==
    REAL_TIME_MODE /\ (n - 1) % steps_per_telemetry_cycle = 0

\* simulation.main after its (n)th step: (t + 1) % steps_per_telemetry_cycle == 0
TelemetryDue(n) == REAL_TIME_MODE /\ n % steps_per_telemetry_cycle = 0

\* where the driver goes once a step has returned
AfterStep(d, n, stage) ==
    IF d = "simulate_step" /\ TelemetryDue(n) THEN "create_json" ELSE stage

LoopContinues(d, t) ==
    IF d = "main" THEN t <= TIME_END ELSE t < TIME_STEPS

InitialCO2(d) ==
    IF d = "main" THEN CO2_CONTENT_INIT
    ELSE mmhg_to_kg_per_kg_air(CO2_CONTENT_INIT_MMHG)

\* faulty variant: the efficiencies start at the value the formula gives an
\* empty bed
CDRAStateInitEmptyBedEff ==
    /\ saturation = [k \in Beds |-> INITIAL_SATURATION_LEVEL]
    /\ adsorption_eff =
           [k \in Beds |-> BASE_ADSORPTION_EFF + MAX_ADSORPTION_EFF_INCREMENT]
    /\ time = 0
    /\ air_flow_rate = AIR_FLOW_RATE
    /\ co2_removed_total = 0
    /\ heater_on = [k \in Beds |-> FALSE]
    /\ valve_state = [path_1_active |-> TRUE]

CDRAStateInit ==
    /\ saturation = [k \in Beds |-> INITIAL_SATURATION_LEVEL]
    /\ adsorption_eff = [k \in Beds |-> BASE_ADSORPTION_EFF]
    /\ time = 0
    /\ air_flow_rate = AIR_FLOW_RATE
    /\ co2_removed_total = 0
    /\ heater_on = [k \in Beds |-> FALSE]
    /\ valve_state = [path_1_active |-> TRUE]

DriverInit ==
    /\ driver \in Drivers
    /\ pc = "control"
    /\ co2_content = InitialCO2(driver)
    /\ C_out = 0
    /\ flow = 0
    /\ co2_before = 0
    /\ cabin = [ppCO2 |-> INITIAL_PPCO2, ppCO21 |-> INITIAL_PPCO2]
    /\ ran = <<>>
    /\ edits = 0
    /\ flips = 0

\* no conversion under way
NoConversion ==
    [ar |-> "exact", x |-> Number(0, 1, "unit"), kg |-> Number(0, 1, "unit"),
     mmhg |-> Number(0, 1, "unit"), step |-> "none"]

Init ==
    /\ CDRAStateInit
    /\ DriverInit
    /\ FAILURE_SCENARIO \in Scenarios
    /\ probe = NoConversion
    /\ horizon = MaxTime
    /\ runs = 1
    /\ loop_t = 0
    /\ telemetry_counter = 0

InitNominal ==
    /\ CDRAStateInit
    /\ DriverInit
    /\ FAILURE_SCENARIO = DefaultScenario
    /\ probe = NoConversion
    /\ horizon = MaxTime
    /\ runs = 1
    /\ loop_t = 0
    /\ telemetry_counter = 0

\* the loop of the driver enters its body once more
StepStarts ==
    /\ LoopIndex(driver, time, loop_t) < horizon
    /\ LoopContinues(driver, LoopIndex(driver, time, loop_t))

control ==
    /\ pc = "control"
    /\ StepStarts
    /\ ~StageRaises(pc, FAILURE_SCENARIO, flow)
    /\ valve_state' = SwitchValve(FAILURE_SCENARIO, time, valve_state)
    /\ heater_on' = HeaterCommands(heater_on, valve_state')
    /\ flips' = IF valve_state' # valve_state
                THEN Min(flips + 1, MaxFlips) ELSE flips
    /\ co2_before' = IF driver = "main" THEN co2_content ELSE co2_before
    /\ ran' = Append(ran, pc)
    /\ pc' = StageAfter(pc)
    /\ UNCHANGED <<driver, time, saturation, adsorption_eff, air_flow_rate,
                   co2_content, co2_removed_total, FAILURE_SCENARIO, C_out, flow,
                   cabin, edits,
                   probe,
                   horizon, runs, loop_t, telemetry_counter>>

apply_failures ==
    /\ pc = "apply_failures"
    /\ ~StageRaises(pc, FAILURE_SCENARIO, flow)
    /\ saturation' = OverlaySaturation(FAILURE_SCENARIO, time, saturation)
    /\ adsorption_eff' =
           OverlayEfficiency(FAILURE_SCENARIO, time, saturation, adsorption_eff)
    /\ heater_on' = FailHeaters(FAILURE_SCENARIO, heater_on)
    /\ air_flow_rate' = FanFlow(FAILURE_SCENARIO, time)
    /\ ran' = Append(ran, pc)
    /\ pc' = StageAfter(pc)
    /\ UNCHANGED <<driver, time, valve_state, co2_content, co2_removed_total,
                   FAILURE_SCENARIO, C_out, flow, co2_before, cabin, edits,
                   probe, flips,
                   horizon, runs, loop_t, telemetry_counter>>

\* faulty variant: the bed update also mixes the outlet air into the cabin
timestep_mixing ==
    /\ pc = "timestep"
    /\ saturation' = UpdateFilters(saturation, heater_on, valve_state)
    /\ adsorption_eff' = UpdateEfficiency(adsorption_eff, saturation')
    /\ C_out' = OutletConcentration(co2_content,
                                    Eta(adsorption_eff', heater_on, valve_state))
    /\ flow' = air_flow_rate
    /\ co2_content' = MixCabin(co2_content, C_out', flow')
    /\ ran' = Append(ran, pc)
    /\ pc' = StageAfter(pc)
    /\ UNCHANGED <<driver, time, heater_on, valve_state, air_flow_rate,
                   co2_removed_total, FAILURE_SCENARIO, co2_before, cabin, edits,
                   probe, flips,
                   horizon, runs, loop_t, telemetry_counter>>

timestep ==
    /\ pc = "timestep"
    /\ saturation' = UpdateFilters(saturation, heater_on, valve_state)
    /\ adsorption_eff' = UpdateEfficiency(adsorption_eff, saturation')
    /\ C_out' = OutletConcentration(co2_content,
                                    Eta(adsorption_eff', heater_on, valve_state))
    /\ flow' = air_flow_rate
    /\ ran' = Append(ran, pc)
    /\ pc' = StageAfter(pc)
    /\ UNCHANGED <<driver, time, heater_on, valve_state, air_flow_rate,
                   co2_content, co2_removed_total, FAILURE_SCENARIO, co2_before,
                   cabin, edits,
                   probe, flips,
                   horizon, runs, loop_t, telemetry_counter>>

update_cabin_concentration ==
    /\ pc = "update_cabin_concentration"
    /\ ~StageRaises(pc, FAILURE_SCENARIO, flow)
    /\ co2_content' = MixCabin(co2_content, C_out, flow)
    /\ ran' = Append(ran, pc)
    /\ pc' = StageAfter(pc)
    /\ UNCHANGED <<driver, time, saturation, adsorption_eff, heater_on,
                   valve_state, air_flow_rate, co2_removed_total,
                   FAILURE_SCENARIO, C_out, flow, co2_before, cabin, edits,
                   probe, flips,
                   horizon, runs, loop_t, telemetry_counter>>

\* the rest of the loop body: CDRA.main accumulates the removed CO2, simulate_step
\* publishes ppCO2; both then advance the tick counter
advance ==
    /\ pc = "advance"
    /\ co2_removed_total' =
           IF driver = "main"
           THEN co2_removed_total + co2_removed(co2_before, co2_content)
           ELSE co2_removed_total
    /\ cabin' =
           IF driver = "simulate_step"
           THEN [ppCO2 |-> kg_per_kg_air_to_mmhg(co2_content),
                 ppCO21 |-> kg_per_kg_air_to_mmhg(co2_content)]
           ELSE cabin
    /\ time' = NextTick(driver, time)
    /\ flips' = 0
    /\ ran' = <<>>
    /\ loop_t' = StepsDone(driver, loop_t)
    /\ pc' = AfterStep(driver, loop_t', StageAfter(pc))
    /\ UNCHANGED <<driver, saturation, adsorption_eff, heater_on, valve_state,
                   air_flow_rate, co2_content, FAILURE_SCENARIO, C_out, flow,
                   co2_before, edits,
                   probe,
                   horizon, runs, telemetry_counter>>

\* the except clause of simulate_step: an exception of the tick is caught, the
\* cabin falls back to its static ppCO2 and the tick counter is not advanced.
\* CDRA.main has no handler: there the exception ends the run.
simulate_step_except ==
    /\ driver = "simulate_step"
    /\ pc = "control" => StepStarts
    /\ StageRaises(pc, FAILURE_SCENARIO, flow)
    /\ cabin' = [ppCO2 |-> FALLBACK_PPCO2, ppCO21 |-> FALLBACK_PPCO2]
    /\ ran' = <<>>
    /\ loop_t' = StepsDone(driver, loop_t)
    /\ pc' = AfterStep(driver, loop_t', "control")
    /\ UNCHANGED <<driver, time, saturation, adsorption_eff, heater_on,
                   valve_state, air_flow_rate, co2_content, co2_removed_total,
                   FAILURE_SCENARIO, C_out, flow, co2_before, edits, probe,
                   flips,
                   horizon, runs, telemetry_counter>>

\* simulation.main, real-time mode, after the step that completes a cycle:
\* create_json() and telemetry_counter += 1
create_json ==
    /\ pc = "create_json"
    /\ telemetry_counter' = telemetry_counter + 1
    /\ pc' = "control"
    /\ UNCHANGED <<driver, time, saturation, adsorption_eff, heater_on,
                   valve_state, air_flow_rate, co2_content, co2_removed_total,
                   FAILURE_SCENARIO, C_out, flow, co2_before, cabin, ran, edits,
                   probe, flips, horizon, runs, loop_t>>

\* FAILURE_SCENARIO[key] = value, between two ticks
EditScenario ==
    /\ pc = "control"
    /\ edits < MaxEdits
    /\ time \in EditTicks
    /\ \E key \in FlagKeys :
          FAILURE_SCENARIO' =
              [FAILURE_SCENARIO EXCEPT ![key] = ~FAILURE_SCENARIO[key]]
    /\ edits' = edits + 1
    /\ UNCHANGED <<driver, pc, time, saturation, adsorption_eff, heater_on,
                   valve_state, air_flow_rate, co2_content, co2_removed_total,
                   C_out, flow, co2_before, cabin, ran,
                   probe, flips,
                   horizon, runs, loop_t, telemetry_counter>>

\* faulty variant: a new CDRAState comes with the default scenario
NewCDRAStateResetsScenario ==
    /\ pc = "control"
    /\ time > 0
    /\ runs < MaxRuns
    /\ saturation' = [k \in Beds |-> INITIAL_SATURATION_LEVEL]
    /\ adsorption_eff' = [k \in Beds |-> BASE_ADSORPTION_EFF]
    /\ time' = 0
    /\ air_flow_rate' = AIR_FLOW_RATE
    /\ co2_removed_total' = 0
    /\ heater_on' = [k \in Beds |-> FALSE]
    /\ valve_state' = [path_1_active |-> TRUE]
    /\ co2_content' = InitialCO2(driver)
    /\ FAILURE_SCENARIO' = DefaultScenario
    /\ runs' = runs + 1
    /\ ran' = <<>>
    /\ flips' = 0
    /\ loop_t' = 0
    /\ telemetry_counter' = 0
    /\ UNCHANGED <<driver, pc, C_out, flow, co2_before, cabin, edits, probe,
                   horizon>>

\* cdra_state = CDRAState(), between two ticks: a later run in the same process
NewCDRAState ==
    /\ pc = "control"
    /\ time > 0
    /\ runs < MaxRuns
    /\ saturation' = [k \in Beds |-> INITIAL_SATURATION_LEVEL]
    /\ adsorption_eff' = [k \in Beds |-> BASE_ADSORPTION_EFF]
    /\ time' = 0
    /\ air_flow_rate' = AIR_FLOW_RATE
    /\ co2_removed_total' = 0
    /\ heater_on' = [k \in Beds |-> FALSE]
    /\ valve_state' = [path_1_active |-> TRUE]
    /\ co2_content' = InitialCO2(driver)
    /\ runs' = runs + 1
    /\ ran' = <<>>
    /\ flips' = 0
    /\ loop_t' = 0
    /\ telemetry_counter' = 0
    /\ UNCHANGED <<driver, pc, FAILURE_SCENARIO, C_out, flow, co2_before, cabin,
                   edits, probe, horizon>>

Tick ==
    \/ control
    \/ apply_failures
    \/ timestep
    \/ update_cabin_concentration
    \/ advance
    \/ create_json

Next == Tick \/ simulate_step_except \/ EditScenario

Spec == Init /\ [][Next]_vars

\* a run in which no failure is ever configured
NextNominal == Tick

SpecNominal == InitNominal /\ [][NextNominal]_vars

\* successive runs in one process, each on a CDRAState of its own, the harness
\* editing the scenario between ticks
InitRuns ==
    /\ CDRAStateInit
    /\ DriverInit
    /\ FAILURE_SCENARIO \in Scenarios
    /\ probe = NoConversion
    /\ horizon = MaxRunTime
    /\ runs = 1
    /\ loop_t = 0
    /\ telemetry_counter = 0

NextRuns == Tick \/ EditScenario \/ NewCDRAState

SpecRuns == InitRuns /\ [][NextRuns]_vars

\* runs long enough for a bed to fill in three adsorbing phases, with the
\* scenario left alone; the loop of the driver keeps running
\* a stuck window that covers the switch ticks 200, 400 and 600
StuckThreeSwitches ==
    [DefaultScenario EXCEPT
        !.valve_stuck = TRUE,
        !.valve_stuck_start = VALVE_SWITCH_INTERVAL - 50,
        !.valve_stuck_end = 3 * VALVE_SWITCH_INTERVAL + 50]

\* a stuck window that covers the switch ticks 200 and 400
StuckTwoSwitches ==
    [DefaultScenario EXCEPT
        !.valve_stuck = TRUE,
        !.valve_stuck_start = VALVE_SWITCH_INTERVAL,
        !.valve_stuck_end = 2 * VALVE_SWITCH_INTERVAL]

\* a filter window in the second valve phase
FilterSecondPhase ==
    [DefaultScenario EXCEPT
        !.filter_saturation = TRUE,
        !.filter_saturation_start = VALVE_SWITCH_INTERVAL + 5,
        !.filter_saturation_end = VALVE_SWITCH_INTERVAL + 15]

HeaterFailedOtherPair ==
    [DefaultScenario EXCEPT !.heater_failure = {"desiccant_1", "sorbent_4"}]

LongScenarios ==
    {DefaultScenario, CDRA_FAILURES, HeaterFailed, HeaterFailedOtherPair,
     FilterOnly, FilterSecondPhase, TestFilterSaturation,
     StuckAtSwitch, StuckTwoSwitches, StuckThreeSwitches}

InitLong ==
    /\ CDRAStateInit
    /\ DriverInit
    /\ FAILURE_SCENARIO \in LongScenarios
    /\ probe = NoConversion
    /\ horizon = MaxLongTime
    /\ runs = 1
    /\ loop_t = 0
    /\ telemetry_counter = 0

SpecLong == InitLong /\ [][Tick]_vars /\ WF_vars(Tick)

\* the conversions of simulation.py applied to an argument x and to the result,
\* in either arithmetic, beside a simulation that has not started
InitConversion ==
    /\ CDRAStateInit
    /\ DriverInit
    /\ driver = "simulate_step"
    /\ FAILURE_SCENARIO = CDRA_FAILURES
    /\ \E ar \in Arithmetics, x \in ConversionInputs :
          probe = [NoConversion EXCEPT !.ar = ar, !.x = x, !.step = "x"]
    /\ horizon = MaxTime
    /\ runs = 1
    /\ loop_t = 0
    /\ telemetry_counter = 0

convert_mmhg_to_kg_per_kg_air ==
    /\ probe.step = "x"
    /\ probe' = [probe EXCEPT !.kg = mmhg_to_kg_per_kg_air_in(probe.ar, probe.x),
                              !.step = "kg"]
    /\ UNCHANGED simVars

convert_kg_per_kg_air_to_mmhg ==
    /\ probe.step = "kg"
    /\ probe' = [probe EXCEPT !.mmhg = kg_per_kg_air_to_mmhg_in(probe.ar, probe.kg),
                              !.step = "mmhg"]
    /\ UNCHANGED simVars

NextConversion ==
    \/ convert_mmhg_to_kg_per_kg_air
    \/ convert_kg_per_kg_air_to_mmhg

SpecConversion == InitConversion /\ [][NextConversion]_vars

\* timestep called on its own, on a CDRAState whose fields the caller has set:
\* any heaters, either path, empty or full beds, stale efficiencies
CallTimes == {0, 5, VALVE_SWITCH_INTERVAL}
CallScenarios == {DefaultScenario, FilterOnly, FanOnly, HeaterFailed}

InitCall ==
    /\ driver = "main"
    /\ pc = "apply_failures"
    /\ time \in CallTimes
    /\ saturation \in [Beds -> {0, SATURATION_TIME_CONSTANT}]
    /\ \E e \in {BASE_ADSORPTION_EFF,
                  BASE_ADSORPTION_EFF + MAX_ADSORPTION_EFF_INCREMENT} :
          adsorption_eff = [b \in Beds |-> e]
    /\ heater_on \in [Beds -> BOOLEAN]
    /\ valve_state \in [path_1_active : BOOLEAN]
    /\ air_flow_rate = AIR_FLOW_RATE
    /\ co2_content \in {0, CO2_CONTENT_INIT}
    /\ co2_removed_total = 0
    /\ FAILURE_SCENARIO \in CallScenarios
    /\ C_out = 0
    /\ flow = 0
    /\ co2_before = 0
    /\ cabin = [ppCO2 |-> INITIAL_PPCO2, ppCO21 |-> INITIAL_PPCO2]
    /\ ran = <<>>
    /\ edits = 0
    /\ flips = 0
    /\ probe = NoConversion
    /\ horizon = MaxTime
    /\ runs = 1
    /\ loop_t = 0
    /\ telemetry_counter = 0

NextCall == apply_failures \/ timestep

SpecCall == InitCall /\ [][NextCall]_vars

-----------------------------------------------------------------------------
(* Properties *)

ActiveBeds == IF valve_state.path_1_active THEN Path1Beds ELSE Path2Beds

\* the states of a tick from the one the bed update reads to the one the tick
\* leaves behind
\* the driver is between two steps: control has not run yet for tick `time`
BeforeControl == pc \in {"control", "create_json"}

AfterFailures == pc \in {"timestep", "update_cabin_concentration", "advance"}
AfterTimestep == pc \in {"update_cabin_concentration", "advance"}
TickCompleted == AfterTimestep \/ (pc = "control" /\ time > 0)

\* C1: in every reachable state every bed's saturation lies in [0.0, 1.0],
\* under every failure scenario and with the scenario edited between ticks.
SaturationBounds ==
    \A b \in Beds :
        0 <= saturation[b] /\ saturation[b] <= SATURATION_TIME_CONSTANT

\* the filter overlay has saturated the beds, the adsorbing pair has been
\* clamped at 1.0 and the heated pair has started to regenerate
SaturationBoundsWitness ==
    /\ pc = "update_cabin_concentration"
    /\ FAILURE_SCENARIO.filter_saturation
    /\ FAILURE_SCENARIO.filter_saturation_start <= time
    /\ time <= FAILURE_SCENARIO.filter_saturation_end
    /\ \A b \in ActiveBeds : saturation[b] = SATURATION_TIME_CONSTANT
    /\ \E b \in Beds \ ActiveBeds :
          saturation[b] = SATURATION_TIME_CONSTANT - REGENERATION_RATE_MULTIPLIER * DT

\* C2: with no failure configured, path_1_active changes on exactly the steps
\* in which control runs at a tick that is a positive multiple of
\* VALVE_SWITCH_INTERVAL: never at tick 0, at no other tick, once per interval,
\* so the path is the parity of the number of multiples passed.
ValvePhase ==
    valve_state.path_1_active
        <=> (((IF BeforeControl THEN Max(time - 1, 0) ELSE time)
                \div VALVE_SWITCH_INTERVAL) % 2 = 0)

ValvePeriodicity ==
    /\ []ValvePhase
    /\ [][(valve_state'.path_1_active # valve_state.path_1_active)
            <=> (pc = "control" /\ time % VALVE_SWITCH_INTERVAL = 0 /\ time # 0)]_vars

\* the second flip has brought the valve back to path 1
ValvePeriodicityWitness ==
    /\ time = 2 * VALVE_SWITCH_INTERVAL
    /\ pc = "apply_failures"
    /\ valve_state.path_1_active

\* C3: while valve_stuck is set and valve_stuck_start <= time <= valve_stuck_end,
\* both ends included, control leaves path_1_active as it is, also at a multiple
\* of VALVE_SWITCH_INTERVAL.
ValveStuckHolds ==
    [][(/\ pc = "control"
        /\ FAILURE_SCENARIO.valve_stuck
        /\ FAILURE_SCENARIO.valve_stuck_start <= time
        /\ time <= FAILURE_SCENARIO.valve_stuck_end)
       => valve_state'.path_1_active = valve_state.path_1_active]_vars

\* control has run at a multiple of the interval that is the first tick of the
\* window, and the valve still selects path 1
ValveStuckWitness ==
    /\ pc = "apply_failures"
    /\ time = VALVE_SWITCH_INTERVAL
    /\ FAILURE_SCENARIO.valve_stuck
    /\ FAILURE_SCENARIO.valve_stuck_start = time
    /\ time <= FAILURE_SCENARIO.valve_stuck_end
    /\ valve_state.path_1_active

\* C4: a bed named in heater_failure has heater_on false in the state the bed
\* update reads and in the state every tick leaves, whatever the valve selects
\* and whatever the tick; only between control and apply_failures may it be on.
HeaterFailureOverride ==
    pc # "apply_failures"
        => \A b \in FAILURE_SCENARIO.heater_failure \cap Beds : ~heater_on[b]

\* control commanded the heater of a failed bed on and the overlay took it back
HeaterFailureWitness ==
    /\ pc = "timestep"
    /\ valve_state.path_1_active
    /\ "desiccant_3" \in FAILURE_SCENARIO.heater_failure
    /\ ~heater_on["desiccant_3"]
    /\ heater_on["sorbent_4"]

\* C5: the flow rate a tick sets, and timestep returns, is degraded_flow_rate
\* when fan_degraded is set and fan_degraded_start <= time <= fan_degraded_end,
\* both ends included, and the nominal AIR_FLOW_RATE in every other tick.
ExpectedFlow ==
    IF /\ FAILURE_SCENARIO.fan_degraded
       /\ FAILURE_SCENARIO.fan_degraded_start <= time
       /\ time <= FAILURE_SCENARIO.fan_degraded_end
    THEN FAILURE_SCENARIO.degraded_flow_rate
    ELSE AIR_FLOW_RATE

FanDegradation ==
    /\ AfterFailures => air_flow_rate = ExpectedFlow
    /\ AfterTimestep => flow = ExpectedFlow

\* the last tick of the window still runs at the degraded rate
FanDegradationWitness ==
    /\ pc = "update_cabin_concentration"
    /\ FAILURE_SCENARIO.fan_degraded
    /\ time = FAILURE_SCENARIO.fan_degraded_end
    /\ flow = FAILURE_SCENARIO.degraded_flow_rate
    /\ flow # AIR_FLOW_RATE

\* C6: at every tick inside an active filter_saturation window the state the
\* tick's pipeline leaves has saturation 1.0 and adsorption efficiency
\* BASE_ADSORPTION_EFF + MAX_ADSORPTION_EFF_INCREMENT for all four beds.
FilterSaturationPinsBeds ==
    (/\ AfterTimestep
     /\ FAILURE_SCENARIO.filter_saturation
     /\ FAILURE_SCENARIO.filter_saturation_start <= time
     /\ time <= FAILURE_SCENARIO.filter_saturation_end)
    => \A b \in Beds :
          /\ saturation[b] = SATURATION_TIME_CONSTANT
          /\ adsorption_eff[b] = BASE_ADSORPTION_EFF + MAX_ADSORPTION_EFF_INCREMENT

\* C7: from the initial state with no failure configured, after k ticks,
\* 0 <= k <= 199, desiccant_1 and sorbent_2 have saturation k/600 and
\* desiccant_3 and sorbent_4 have saturation 0.
FirstPhaseSaturation ==
    (pc = "control" /\ time < VALVE_SWITCH_INTERVAL)
        => /\ saturation["desiccant_1"] = time
           /\ saturation["sorbent_2"] = time
           /\ saturation["desiccant_3"] = 0
           /\ saturation["sorbent_4"] = 0

FirstPhaseWitness ==
    /\ pc = "control"
    /\ time = VALVE_SWITCH_INTERVAL - 1
    /\ saturation["desiccant_1"] = VALVE_SWITCH_INTERVAL - 1
    /\ saturation["sorbent_2"] = VALVE_SWITCH_INTERVAL - 1

\* C8: the bed update of every tick drives the saturation of exactly the pair
\* path_1_active selects upward (to min(s + 1/600, 1.0)) and lets no bed of the
\* other pair rise: that bed keeps its saturation or regenerates.
PathExclusivity ==
    [][pc = "timestep" =>
        /\ \A b \in ActiveBeds :
              saturation'[b] = Min(saturation[b] + 1, SATURATION_TIME_CONSTANT)
        /\ \A b \in Beds \ ActiveBeds :
              \/ saturation'[b] = saturation[b]
              \/ saturation'[b] = Max(saturation[b] - 2, 0)]_vars

\* the first bed update after the flip to path 2
PathExclusivityWitness ==
    /\ pc = "update_cabin_concentration"
    /\ time = VALVE_SWITCH_INTERVAL
    /\ ~valve_state.path_1_active
    /\ saturation["desiccant_3"] = 1
    /\ saturation["sorbent_4"] = 1
    /\ saturation["desiccant_1"] = VALVE_SWITCH_INTERVAL - 2
    /\ saturation["sorbent_2"] = VALVE_SWITCH_INTERVAL - 2

UnknownHeaterFailsFast ==
    (FAILURE_SCENARIO.heater_failure \ Beds # {})
        => (~AfterFailures /\ time = 0)

\* C12: in every reachable state saturation, adsorption_eff and heater_on have
\* exactly the four bed names as keys, under any scenario value.
BedKeySetsFixed ==
    /\ DOMAIN saturation = Beds
    /\ DOMAIN adsorption_eff = Beds
    /\ DOMAIN heater_on = Beds

\* C13: time starts at 0 and never decreases; control, apply_failures, the
\* bed update and update_cabin_concentration leave it unchanged; the driver
\* raises it by exactly one, once per completed tick.
TimeAdvance ==
    /\ time = 0
    /\ [][/\ time' >= time
          /\ (pc \in {"control", "apply_failures", "timestep",
                      "update_cabin_concentration"}) => time' = time
          /\ pc = "advance" => (time' = time + 1 /\ Len(ran) = 4)]_vars

\* three ticks have been completed and counted
TimeAdvanceWitness ==
    /\ pc = "control"
    /\ time = 3
    /\ saturation["desiccant_1"] = 3

\* C14: co2_removed_total starts at 0 and never decreases; each tick of
\* CDRA.main adds max(co2_before - co2_after, 0) to it, co2_before being the
\* cabin content the tick started from, so a tick in which the cabin CO2 rises
\* adds exactly 0.
RemovedTotalMonotone ==
    /\ co2_removed_total = 0
    /\ [](driver = "main" /\ pc \in {"apply_failures", "timestep",
                                      "update_cabin_concentration"}
            => co2_before = co2_content)
    /\ [][/\ co2_removed_total' >= co2_removed_total
          /\ (pc = "advance" /\ driver = "main")
                => co2_removed_total' = co2_removed_total
                      + (IF co2_content < co2_before
                         THEN co2_before - co2_content ELSE 0)
          /\ pc # "advance" => co2_removed_total' = co2_removed_total]_vars

\* the cabin CO2 fell in earlier ticks and rose in the last one, which added 0
RemovedTotalWitness ==
    /\ driver = "main"
    /\ pc = "control"
    /\ time > 0
    /\ co2_content > co2_before
    /\ co2_removed_total > 0

\* C15: control and timestep, its failure overlay included, leave co2_content
\* unchanged; update_cabin_concentration changes co2_content and leaves
\* saturation, adsorption_eff, heater_on, valve_state, air_flow_rate, time and
\* co2_removed_total unchanged.
StageFrames ==
    [][/\ (pc \in {"control", "apply_failures", "timestep"})
            => co2_content' = co2_content
       /\ pc = "update_cabin_concentration"
            => UNCHANGED <<saturation, adsorption_eff, heater_on, valve_state,
                           air_flow_rate, time, co2_removed_total>>]_vars

\* update_cabin_concentration has moved the cabin content of a tick whose bed
\* update had changed the beds
StageFramesWitness ==
    /\ driver = "main"
    /\ pc = "advance"
    /\ time = 1
    /\ co2_content # co2_before
    /\ saturation["desiccant_1"] = 2

\* C16: a freshly constructed CDRAState has time 0, every saturation 0.0,
\* every adsorption efficiency BASE_ADSORPTION_EFF, path_1_active true, the
\* nominal air flow rate, every heater off and co2_removed_total 0, whatever
\* the scenario.
FreshState ==
    (time = 0 /\ pc = "control")
        => /\ \A b \in Beds :
                 /\ saturation[b] = 0
                 /\ adsorption_eff[b] = BASE_ADSORPTION_EFF
                 /\ ~heater_on[b]
           /\ valve_state.path_1_active
           /\ air_flow_rate = AIR_FLOW_RATE
           /\ co2_removed_total = 0

\* the state simulation.py constructs, under the scenario it configures
FreshStateWitness ==
    /\ time = 0
    /\ pc = "control"
    /\ driver = "simulate_step"
    /\ FAILURE_SCENARIO = CDRA_FAILURES
    /\ adsorption_eff["sorbent_2"] = BASE_ADSORPTION_EFF

\* C17: with no bed listed in heater_failure, desiccant_1 and sorbent_2 have
\* equal saturation and equal heater_on, and so have desiccant_3 and sorbent_4,
\* in the state every tick leaves, under any combination of the valve, filter
\* and fan failures.
PairsInStep ==
    (TickCompleted /\ FAILURE_SCENARIO.heater_failure \cap Beds = {})
        => /\ saturation["desiccant_1"] = saturation["sorbent_2"]
           /\ heater_on["desiccant_1"] = heater_on["sorbent_2"]
           /\ saturation["desiccant_3"] = saturation["sorbent_4"]
           /\ heater_on["desiccant_3"] = heater_on["sorbent_4"]

\* valve, filter and fan failures together: the filter overlay has filled all
\* four beds and the heated pair has regenerated since, in step
PairsInStepWitness ==
    /\ pc = "control"
    /\ FAILURE_SCENARIO.heater_failure = {}
    /\ FAILURE_SCENARIO.valve_stuck
    /\ FAILURE_SCENARIO.filter_saturation
    /\ FAILURE_SCENARIO.fan_degraded
    /\ time > FAILURE_SCENARIO.filter_saturation_end
    /\ saturation["desiccant_1"] = SATURATION_TIME_CONSTANT
    /\ saturation["desiccant_3"] < SATURATION_TIME_CONSTANT
    /\ saturation["desiccant_3"] > 0
    /\ heater_on["sorbent_4"]

\* C19: in each tick, relative to the saturations the bed update starts from,
\* a bed of the adsorbing pair ends with min(saturation + DT/600, 1.0), a bed of
\* the regenerating pair whose heater is on ends with
\* max(saturation - 2*DT/600, 0.0), and a bed of the regenerating pair whose
\* heater is off ends with its saturation unchanged.
BedUpdateRule ==
    [][pc = "timestep" =>
        \A b \in Beds :
            saturation'[b] =
                IF b \in ActiveBeds
                THEN Min(saturation[b] + DT, SATURATION_TIME_CONSTANT)
                ELSE IF heater_on[b]
                     THEN Max(saturation[b] - REGENERATION_RATE_MULTIPLIER * DT, 0)
                     ELSE saturation[b]]_vars

\* the first bed update on path 2 with the heater of sorbent_2 failed: the bed
\* keeps its saturation while desiccant_1 regenerates and path 2 adsorbs
BedUpdateRuleWitness ==
    /\ pc = "update_cabin_concentration"
    /\ time = VALVE_SWITCH_INTERVAL
    /\ ~valve_state.path_1_active
    /\ "sorbent_2" \in FAILURE_SCENARIO.heater_failure
    /\ ~heater_on["sorbent_2"]
    /\ saturation["sorbent_2"] = VALVE_SWITCH_INTERVAL
    /\ saturation["desiccant_1"]
          = VALVE_SWITCH_INTERVAL - REGENERATION_RATE_MULTIPLIER * DT
    /\ saturation["sorbent_4"] = DT

\* C20: in the state control returns, heater_on of desiccant_3 and sorbent_4
\* equals path_1_active and heater_on of desiccant_1 and sorbent_2 equals its
\* negation, for the valve position after a flip made in the same call and
\* whatever heater_failure lists; control leaves saturation, adsorption_eff,
\* air_flow_rate, co2_content and time unchanged.
ControlEffect ==
    /\ [](pc = "apply_failures" =>
            /\ heater_on["desiccant_3"] = valve_state.path_1_active
            /\ heater_on["sorbent_4"] = valve_state.path_1_active
            /\ heater_on["desiccant_1"] = ~valve_state.path_1_active
            /\ heater_on["sorbent_2"] = ~valve_state.path_1_active)
    /\ [][pc = "control" =>
            UNCHANGED <<saturation, adsorption_eff, air_flow_rate, co2_content,
                        time>>]_vars

\* control has flipped the valve to path 2 and commanded the heater of a bed
\* listed in heater_failure on
ControlEffectWitness ==
    /\ pc = "apply_failures"
    /\ time = VALVE_SWITCH_INTERVAL
    /\ ~valve_state.path_1_active
    /\ "sorbent_2" \in FAILURE_SCENARIO.heater_failure
    /\ heater_on["sorbent_2"]
    /\ ~heater_on["desiccant_3"]

\* C18 as stated: for every finite x,
\* kg_per_kg_air_to_mmhg(mmhg_to_kg_per_kg_air(x)) equals x, in floating point
\* and in exact arithmetic alike.
RoundTripEveryFinite ==
    probe.step = "mmhg" => probe.mmhg = probe.x

\* C18, amended: in exact arithmetic the round trip returns x for every x; in
\* floating point it returns x when x is 0 or lies in the range where no
\* intermediate result leaves the normal doubles, it returns an infinity when
\* x * 133.322 exceeds the largest double, and it returns 0 when x is so small
\* that x / 760 rounds to 0.
RoundTrip ==
    probe.step = "mmhg" =>
        /\ probe.ar = "exact" => probe.mmhg = probe.x
        /\ (probe.ar = "float" /\ probe.x.magnitude = "unit")
              => probe.mmhg = probe.x
        /\ (probe.ar = "float" /\ probe.x.magnitude = "huge")
              => IF Abs(probe.x.num) * PA_PER_MMHG_MILLI
                        >= HUGE_LIMIT * 1000 * probe.x.den
                 THEN probe.mmhg.den = 0 /\ probe.mmhg.num = 1
                 ELSE probe.mmhg = probe.x
        /\ (/\ probe.ar = "float"
            /\ probe.x.magnitude = "tiny"
            /\ 2 * probe.x.num < STANDARD_PRESSURE_MMHG * probe.x.den)
              => probe.mmhg.num = 0

\* 7.69 * 2^1014, a finite double, has been converted to an infinite mass
\* fraction and back to an infinite pressure
RoundTripWitness ==
    /\ probe.step = "mmhg"
    /\ probe.ar = "float"
    /\ probe.x = Number(769, 100, "huge")
    /\ probe.kg.den = 0
    /\ probe.mmhg.den = 0

\* C21: timestep returns (C_out, air_flow_rate) where, for s the sorbent of
\* the active path and C_in the cabin co2_content, C_out = C_in * (1 - eff[s])
\* when the heater of s is off, eff[s] being recomputed from the saturation the
\* same call has just updated, and C_out = C_in * (-DESORPTION_MULTIPLIER) when
\* the heater of s is on.  (C_out to the nearest unit.)
OutletFormula ==
    pc = "update_cabin_concentration" =>
        LET s == IF valve_state.path_1_active THEN "sorbent_2" ELSE "sorbent_4"
            expected ==
                IF ~heater_on[s]
                THEN co2_content * (EFF_UNITS - adsorption_eff[s])
                ELSE co2_content * (0 - DESORPTION_MULTIPLIER)
        IN  /\ flow = air_flow_rate
            /\ adsorption_eff[s] * SATURATION_TIME_CONSTANT
                  = BASE_ADSORPTION_EFF * SATURATION_TIME_CONSTANT
                    + MAX_ADSORPTION_EFF_INCREMENT
                        * (SATURATION_TIME_CONSTANT - saturation[s])
            /\ 2 * (C_out * EFF_UNITS - expected) <= EFF_UNITS
            /\ 2 * (expected - C_out * EFF_UNITS) <= EFF_UNITS

\* timestep was called with the heater of the active sorbent on and returned
\* a negative outlet concentration
OutletFormulaWitness ==
    /\ pc = "update_cabin_concentration"
    /\ ~valve_state.path_1_active
    /\ heater_on["sorbent_4"]
    /\ co2_content = CO2_CONTENT_INIT
    /\ C_out < 0

\* C22: at each positive multiple m of VALVE_SWITCH_INTERVAL at which the
\* valve is not stuck, path_1_active flips exactly once while time = m, however
\* many times the driver enters control before the tick counter advances.
FlipOncePerMultiple ==
    /\ flips <= 1
    /\ (/\ ~BeforeControl
        /\ time > 0
        /\ time % VALVE_SWITCH_INTERVAL = 0
        /\ ~valve_stuck(FAILURE_SCENARIO, time)) => flips = 1

\* C23: in every tick in which control runs before timestep, the sorbent of
\* the active path has its heater off when the efficiency is selected, under
\* every failure scenario: the desorption branch is never taken, the selected
\* eta lies in [BASE_ADSORPTION_EFF, BASE_ADSORPTION_EFF +
\* MAX_ADSORPTION_EFF_INCREMENT], and 0 <= C_out <= C_in for C_in >= 0.
NoDesorption ==
    LET s == IF valve_state.path_1_active THEN "sorbent_2" ELSE "sorbent_4"
    IN  /\ (pc \in {"timestep", "update_cabin_concentration"})
              => ~heater_on[s]
        /\ pc = "update_cabin_concentration"
              => /\ BASE_ADSORPTION_EFF <= adsorption_eff[s]
                 /\ adsorption_eff[s]
                       <= BASE_ADSORPTION_EFF + MAX_ADSORPTION_EFF_INCREMENT
                 /\ co2_content >= 0
                 /\ 0 <= C_out
                 /\ C_out <= co2_content

\* a tick inside a filter saturation window: the efficiency selected is the
\* lowest one and the outlet concentration lies strictly between 0 and C_in
NoDesorptionWitness ==
    /\ pc = "update_cabin_concentration"
    /\ FAILURE_SCENARIO.filter_saturation
    /\ FAILURE_SCENARIO.filter_saturation_start <= time
    /\ time <= FAILURE_SCENARIO.filter_saturation_end
    /\ ~heater_on["sorbent_2"]
    /\ valve_state.path_1_active
    /\ adsorption_eff["sorbent_2"] = BASE_ADSORPTION_EFF
    /\ 0 < C_out
    /\ C_out < co2_content

\* the beds with a failed heater, in a scenario whose valve is never stuck and
\* whose filters are never saturated
FailedBeds ==
    IF ~FAILURE_SCENARIO.valve_stuck /\ ~FAILURE_SCENARIO.filter_saturation
    THEN FAILURE_SCENARIO.heater_failure \cap Beds
    ELSE {}

\* the ticks among the first t that bed b, valve never stuck, has spent in the
\* adsorbing pair
AdsorbingTicks(b, t) ==
    (t \div (2 * VALVE_SWITCH_INTERVAL)) * VALVE_SWITCH_INTERVAL
        + (IF b \in Path1Beds
           THEN Min(t % (2 * VALVE_SWITCH_INTERVAL), VALVE_SWITCH_INTERVAL)
           ELSE Max((t % (2 * VALVE_SWITCH_INTERVAL)) - VALVE_SWITCH_INTERVAL, 0))

\* C24: for a bed b listed in heater_failure for the whole run, the valve never
\* stuck and no filter saturation: saturation[b] never decreases, it is the
\* number of ticks b has spent in the adsorbing pair (in 1/600) up to 1.0,
\* which it reaches after 600 such ticks, and from then on it stays 1.0.
FailedHeaterFills ==
    /\ [][\A b \in FailedBeds : saturation'[b] >= saturation[b]]_vars
    /\ [](pc = "control" =>
            \A b \in FailedBeds :
                saturation[b]
                    = Min(AdsorbingTicks(b, time), SATURATION_TIME_CONSTANT))
    /\ <>[](\A b \in FailedBeds : saturation[b] = SATURATION_TIME_CONSTANT)

\* sorbent_2, its heater failed, has filled up in its third adsorbing phase
\* while desiccant_1 beside it still regenerates to 0 in every cycle
FailedHeaterFillsWitness ==
    /\ pc = "control"
    /\ time = 5 * VALVE_SWITCH_INTERVAL
    /\ "sorbent_2" \in FailedBeds
    /\ saturation["sorbent_2"] = SATURATION_TIME_CONSTANT
    /\ saturation["desiccant_3"] = 2 * VALVE_SWITCH_INTERVAL
    /\ saturation["desiccant_1"] = VALVE_SWITCH_INTERVAL

FilterWindowOnly ==
    /\ FAILURE_SCENARIO.filter_saturation
    /\ ~FAILURE_SCENARIO.valve_stuck
    /\ FAILURE_SCENARIO.heater_failure = {}

Recovered == \A b \in Beds : saturation[b] <= VALVE_SWITCH_INTERVAL

\* C26: after a filter_saturation window has ended, the valve not stuck and no
\* heater failed, eventually every bed's saturation is at most
\* VALVE_SWITCH_INTERVAL / SATURATION_TIME_CONSTANT and stays so forever (here:
\* from five valve phases after the end of the window at the latest).
FilterRecovery ==
    /\ [](( /\ FilterWindowOnly
            /\ time > FAILURE_SCENARIO.filter_saturation_end
                         + 5 * VALVE_SWITCH_INTERVAL) => Recovered)
    /\ <>[](FilterWindowOnly => Recovered)

\* five valve phases after the window the beds are back in the nominal cycle:
\* the pair that has just adsorbed is at 200/600, the other one is empty
FilterRecoveryWitness ==
    /\ FilterWindowOnly
    /\ pc = "control"
    /\ time = 6 * VALVE_SWITCH_INTERVAL
    /\ time > FAILURE_SCENARIO.filter_saturation_end + 5 * VALVE_SWITCH_INTERVAL
    /\ saturation["desiccant_3"] = VALVE_SWITCH_INTERVAL
    /\ saturation["sorbent_4"] = VALVE_SWITCH_INTERVAL
    /\ saturation["desiccant_1"] = 0
    /\ saturation["sorbent_2"] = 0

\* no failure is configured
NoFailureConfigured ==
    /\ ~FAILURE_SCENARIO.valve_stuck
    /\ ~FAILURE_SCENARIO.filter_saturation
    /\ ~FAILURE_SCENARIO.fan_degraded
    /\ FAILURE_SCENARIO.heater_failure = {}

\* the beds of the pair the valve selects
ActivePair(vs) == IF vs.path_1_active THEN Path1Beds ELSE Path2Beds

\* C27: in a run from the initial state with no failure ever active every
\* bed's saturation is at most VALVE_SWITCH_INTERVAL / SATURATION_TIME_CONSTANT
\* at every tick, and it is exactly 0 at each tick at which the bed's pair
\* switches from regenerating to adsorbing.
NominalCycle ==
    /\ [](NoFailureConfigured => Recovered)
    /\ [][(NoFailureConfigured /\ control /\ valve_state' # valve_state) =>
             \A b \in ActivePair(valve_state') : saturation'[b] = 0]_vars
    /\ []((/\ NoFailureConfigured
           /\ ~BeforeControl
           /\ time > 0
           /\ time % VALVE_SWITCH_INTERVAL = 0
           /\ "timestep" \notin {ran[i] : i \in DOMAIN ran})
              => \A b \in ActivePair(valve_state) : saturation[b] = 0)

\* the valve has just switched back to path 2: desiccant_3 and sorbent_4,
\* which peaked at 200/600 one phase earlier, start adsorbing from 0 while the
\* other pair is at its peak
NominalCycleWitness ==
    /\ NoFailureConfigured
    /\ pc = "apply_failures"
    /\ time = 3 * VALVE_SWITCH_INTERVAL
    /\ ~valve_state.path_1_active
    /\ saturation["desiccant_3"] = 0
    /\ saturation["sorbent_4"] = 0
    /\ saturation["desiccant_1"] = VALVE_SWITCH_INTERVAL
    /\ saturation["sorbent_2"] = VALVE_SWITCH_INTERVAL

\* the last tick control has run for
ControlledTick == IF BeforeControl THEN time - 1 ELSE time

\* the switch ticks up to t, and those of them inside the valve_stuck window
SwitchTicks(t) ==
    {m * VALVE_SWITCH_INTERVAL : m \in 1 .. (t \div VALVE_SWITCH_INTERVAL)}

SkippedSwitchTicks(scn, t) == {m \in SwitchTicks(t) : valve_stuck(scn, m)}

\* path_1_active of a failure-free run once control has run for tick t
NominalPhase(t) == Cardinality(SwitchTicks(t)) % 2 = 0

\* C28: a valve flip that falls inside a valve_stuck window is skipped, not
\* deferred: the valve flips only at ticks that are positive multiples of
\* VALVE_SWITCH_INTERVAL, so path_1_active has flipped once per switch tick
\* outside the window, and after a window that covers an odd number of switch
\* ticks it is the inverse of the failure-free phase for the rest of the run.
SkippedNotDeferred ==
    /\ [][valve_state' # valve_state =>
             (time > 0 /\ time % VALVE_SWITCH_INTERVAL = 0)]_vars
    /\ [](valve_state.path_1_active =
             (Cardinality(SwitchTicks(ControlledTick)
                            \ SkippedSwitchTicks(FAILURE_SCENARIO, ControlledTick))
                 % 2 = 0))
    /\ []((/\ FAILURE_SCENARIO.valve_stuck
           /\ ControlledTick > FAILURE_SCENARIO.valve_stuck_end
           /\ Cardinality(SkippedSwitchTicks(FAILURE_SCENARIO,
                                             ControlledTick)) % 2 = 1)
              => valve_state.path_1_active # NominalPhase(ControlledTick))

\* the flip of tick 200 fell into the window [200, 200]: the valve has not
\* moved at tick 201 .. 399, flipped at tick 400, and at tick 600 path 1 is
\* selected where a failure-free run selects path 2
SkippedNotDeferredWitness ==
    /\ FAILURE_SCENARIO.valve_stuck
    /\ FAILURE_SCENARIO.valve_stuck_start = VALVE_SWITCH_INTERVAL
    /\ FAILURE_SCENARIO.valve_stuck_end = VALVE_SWITCH_INTERVAL
    /\ pc = "apply_failures"
    /\ time = 3 * VALVE_SWITCH_INTERVAL
    /\ valve_state.path_1_active
    /\ ~NominalPhase(time)

\* simulation.py runs its loop under the configuration it ships with
ShippedRun == driver = "simulate_step" /\ FAILURE_SCENARIO = CDRA_FAILURES

\* C29: under the shipped configuration (valve_stuck over [0, TIME_STEPS], no
\* other failure) path_1_active stays true in every tick of simulation.main,
\* the saturation of desiccant_1 and sorbent_2 rises by 1/600 per tick, is 1.0
\* after the 600th tick and stays there, and the saturation of desiccant_3 and
\* sorbent_4 stays 0.  (Once the beds of path 1 are full, no switch tick up to
\* TIME_STEPS moves the valve and the bed update changes nothing.)
ShippedRunSaturates ==
    /\ [](ShippedRun =>
            /\ valve_state.path_1_active
            /\ \A b \in Path2Beds : saturation[b] = 0
            /\ pc = "control" =>
                  \A b \in Path1Beds :
                      saturation[b] = Min(time, SATURATION_TIME_CONSTANT)
            /\ (pc = "timestep" /\ time >= SATURATION_TIME_CONSTANT) =>
                  /\ UpdateFilters(saturation, heater_on, valve_state)
                        = saturation
                  /\ \A m \in 1 .. (TIME_STEPS \div VALVE_SWITCH_INTERVAL) :
                        SwitchValve(FAILURE_SCENARIO, m * VALVE_SWITCH_INTERVAL,
                                    valve_state) = valve_state)
    /\ <>[](ShippedRun =>
              \A b \in Path1Beds : saturation[b] = SATURATION_TIME_CONSTANT)

\* the 600th tick has just completed: desiccant_1 and sorbent_2 are full, the
\* valve still selects path 1 and three switch ticks have gone by
ShippedRunWitness ==
    /\ ShippedRun
    /\ pc = "control"
    /\ time = SATURATION_TIME_CONSTANT
    /\ valve_state.path_1_active
    /\ saturation["desiccant_1"] = SATURATION_TIME_CONSTANT
    /\ saturation["sorbent_2"] = SATURATION_TIME_CONSTANT
    /\ saturation["desiccant_3"] = 0
    /\ saturation["sorbent_4"] = 0

\* C30: the failure scenario is process-wide state, independent of any
\* CDRAState: creating a new CDRAState resets the tick counter and the bed state
\* and leaves FAILURE_SCENARIO as it is; none of control, apply_failures,
\* timestep and update_cabin_concentration modifies it; so in a later run on a
\* fresh state every failure the scenario holds applies whenever that run's
\* tick counter lies in its window.
ScenarioOutlivesState ==
    /\ [][NewCDRAState =>
             (CDRAStateInit' /\ FAILURE_SCENARIO' = FAILURE_SCENARIO)]_vars
    /\ [][(control \/ apply_failures \/ timestep \/ update_cabin_concentration)
             => FAILURE_SCENARIO' = FAILURE_SCENARIO]_vars
    /\ [][(runs > 1 /\ control /\ valve_stuck(FAILURE_SCENARIO, time))
             => valve_state' = valve_state]_vars
    /\ [][(runs > 1 /\ apply_failures) =>
             /\ FilterSaturated(FAILURE_SCENARIO, time) =>
                   \A b \in Beds : saturation'[b] = SATURATION_TIME_CONSTANT
             /\ \A b \in FAILURE_SCENARIO.heater_failure \cap Beds :
                   ~heater_on'[b]
             /\ (/\ FAILURE_SCENARIO.fan_degraded
                 /\ FAILURE_SCENARIO.fan_degraded_start <= time
                 /\ time <= FAILURE_SCENARIO.fan_degraded_end)
                   => air_flow_rate' = FAILURE_SCENARIO.degraded_flow_rate]_vars

\* fan_degraded was switched on during the first run; tick 2 of the second run,
\* on a fresh CDRAState, lies in the fan window and runs at the degraded flow
ScenarioOutlivesStateWitness ==
    /\ runs = 2
    /\ edits = 1
    /\ time = 2
    /\ pc = "timestep"
    /\ FAILURE_SCENARIO.fan_degraded
    /\ co2_removed_total = 0
    /\ saturation["desiccant_1"] = 2
    /\ air_flow_rate = DEGRADED_FLOW_RATE

\* the telemetry posts due after n steps of simulation.main
PostsDue(n) == n \div steps_per_telemetry_cycle

\* C31: in real-time mode simulation.main posts telemetry exactly once after
\* every steps_per_telemetry_cycle completed steps and at no other step: after
\* n steps the number of posts is floor(n / steps_per_telemetry_cycle), and each
\* post is made after the step that completes the cycle has returned and
\* before the next step starts.
TelemetryCadence ==
    /\ []((driver = "simulate_step" /\ REAL_TIME_MODE) =>
            telemetry_counter
                = (IF pc = "create_json"
                   THEN PostsDue(loop_t) - 1 ELSE PostsDue(loop_t)))
    /\ [][telemetry_counter' # telemetry_counter =>
             /\ pc = "create_json" /\ pc' = "control"
             /\ telemetry_counter' = telemetry_counter + 1
             /\ loop_t > 0 /\ loop_t % steps_per_telemetry_cycle = 0
             /\ UNCHANGED <<loop_t, time, cabin, ran>>]_vars
    /\ [][pc' = "create_json" =>
             /\ advance \/ simulate_step_except
             /\ loop_t' = loop_t + 1
             /\ ran' = <<>>]_vars
    /\ [][control => telemetry_counter = PostsDue(loop_t)]_vars

\* the second post has been made, after the 100th step and before the 101st
TelemetryCadenceWitness ==
    /\ driver = "simulate_step"
    /\ pc = "control"
    /\ loop_t = 2 * steps_per_telemetry_cycle
    /\ time = loop_t
    /\ ran = <<>>
    /\ telemetry_counter = 2

\* a stage of simulate_step is about to raise
Raising ==
    /\ driver = "simulate_step"
    /\ \/ pc = "control" /\ StepStarts /\ FAILURE_SCENARIO.valve_stuck
                          /\ FAILURE_SCENARIO.valve_stuck_start = NoneTick
       \/ pc = "apply_failures" /\ FAILURE_SCENARIO.filter_saturation
                                 /\ FAILURE_SCENARIO.filter_saturation_start = NoneTick
       \/ pc = "update_cabin_concentration" /\ flow = NoneFlow

\* C32: if a stage of simulate_step raises, the exception is absorbed: cabin
\* ppCO2 and ppCO21 are set to the fallback 0.5, cdra_state.time is not
\* advanced, so the next call uses the same tick number, and simulate_step
\* returns normally, so the loop of simulation.main goes on to its next
\* iteration.
ExceptionAbsorbed ==
    /\ [][Raising =>
             /\ cabin' = [ppCO2 |-> FALLBACK_PPCO2, ppCO21 |-> FALLBACK_PPCO2]
             /\ time' = time
             /\ loop_t' = loop_t + 1
             /\ pc' = (IF TelemetryDue(loop_t') THEN "create_json" ELSE "control")
             /\ FAILURE_SCENARIO' = FAILURE_SCENARIO]_vars
    /\ [](Raising => ENABLED simulate_step_except)
    /\ []((driver = "simulate_step" /\ pc = "control" /\ StepStarts)
             => ENABLED (control \/ simulate_step_except))
    /\ [](driver = "simulate_step" => time <= loop_t)

\* filter_saturation was enabled at tick 5 on a window whose start is None:
\* two calls have raised in apply_failures since, the cabin shows the fallback
\* value and the third call starts at tick 5 again
ExceptionAbsorbedWitness ==
    /\ driver = "simulate_step"
    /\ pc = "control"
    /\ FAILURE_SCENARIO.filter_saturation
    /\ FAILURE_SCENARIO.filter_saturation_start = NoneTick
    /\ time = 5
    /\ loop_t = 7
    /\ saturation["desiccant_1"] = 5
    /\ cabin = [ppCO2 |-> FALLBACK_PPCO2, ppCO21 |-> FALLBACK_PPCO2]

====
